---------------------------- MODULE Spec2Model ----------------------------
(***************************************************************************)
(* Dangerous Workflow detector of scorecard (checks/raw/dangerous_workflow *)
(* .go): the untrusted-checkout analyzer, the script-injection scanner,    *)
(* the imposter-commit detector with its reachability cache, and the       *)
(* Validate callback that runs the three over every workflow file.         *)
(*                                                                         *)
(* Go strings that the code searches, slices or splits are sequences of    *)
(* one-character strings, indexed from 0 as in Go by the helpers below.    *)
(* A Go pointer is a sequence of length at most one: <<>> is nil.          *)
(***************************************************************************)
EXTENDS Integers, Sequences, FiniteSets, TLC

VARIABLES
  data,    \* pdata.Workflows: the findings of checker.DangerousWorkflowData
  calls,   \* the calls made on the repository client, in order
  cache,   \* containsCache.cache: map[commitKey]bool
  ret,     \* what the last operation returned
  arg,     \* the arguments of the operation under way
  pc,      \* position of the caller
  reach,   \* the remote repositories: which refs contain which revision
  hist     \* the operations completed so far, with what each returned

vars == <<data, calls, cache, ret, arg, pc, reach, hist>>

Nil == "nil"        \* a nil error
NilPtr == <<>>      \* a nil pointer
Ptr(x) == <<x>>     \* a pointer to x

-----------------------------------------------------------------------------
(* Package strings, on sequences of characters.                            *)

\* s[i:j]
Slice(s, i, j) == SubSeq(s, i + 1, j)

HasPrefixAt(s, sub, i) ==
  /\ i + Len(sub) <= Len(s)
  /\ SubSeq(s, i + 1, i + Len(sub)) = sub

\* strings.Index: the first index of sub in s, -1 when there is none
Index(s, sub) ==
  LET hits == {i \in 0..(Len(s) - Len(sub)) : HasPrefixAt(s, sub, i)}
  IN  IF hits = {} THEN -1
      ELSE CHOOSE i \in hits : \A j \in hits : i <= j

\* strings.Contains
Contains(s, sub) == Index(s, sub) # -1

\* strings.TrimPrefix
TrimPrefix(s, prefix) ==
  IF HasPrefixAt(s, prefix, 0) THEN Slice(s, Len(prefix), Len(s)) ELSE s

\* a split at the last separator only
SplitLast(s, sep) ==
  LET hits == {i \in 0..(Len(s) - Len(sep)) : HasPrefixAt(s, sep, i)}
  IN  IF hits = {} THEN <<s>>
      ELSE LET i == CHOOSE h \in hits : \A g \in hits : g <= h
           IN  <<Slice(s, 0, i), Slice(s, i + Len(sep), Len(s))>>

\* strings.Split, for a non-empty separator
RECURSIVE Split(_, _)
Split(s, sep) ==
  LET i == Index(s, sep)
  IN  IF i = -1 THEN <<s>>
      ELSE <<Slice(s, 0, i)>> \o Split(Slice(s, i + Len(sep), Len(s)), sep)

\* regexp: a, then any characters but a newline, then b
MatchGap(s, a, b) ==
  \E i \in 0..Len(s), j \in 0..Len(s) :
     /\ HasPrefixAt(s, a, i)
     /\ j >= i + Len(a)
     /\ HasPrefixAt(s, b, j)
     /\ \A k \in (i + Len(a) + 1)..j : s[k] # "\n"

-----------------------------------------------------------------------------
(* String literals of the source.                                          *)

(* "github.event.pull_request" *)
checkoutUntrustedPullRequestRef ==
  <<"g","i","t","h","u","b",".","e","v","e","n","t",".","p","u","l","l","_","r","e","q","u","e","s","t">>

(* "github.event.workflow_run" *)
checkoutUntrustedWorkflowRunRef ==
  <<"g","i","t","h","u","b",".","e","v","e","n","t",".","w","o","r","k","f","l","o","w","_","r","u","n">>

(* "actions/checkout" *)
strActionsCheckout ==
  <<"a","c","t","i","o","n","s","/","c","h","e","c","k","o","u","t">>

(* "${{" *)
strOpenExpr ==
  <<"$","{","{">>

(* "}}" *)
strCloseExpr ==
  <<"}","}">>

(* "github.head_ref" *)
strGithubHeadRef ==
  <<"g","i","t","h","u","b",".","h","e","a","d","_","r","e","f">>

(* "github.event." *)
strGithubEvent ==
  <<"g","i","t","h","u","b",".","e","v","e","n","t",".">>

(* "actions://" *)
strActionsScheme ==
  <<"a","c","t","i","o","n","s",":","/","/">>

(* "@" *)
strAt ==
  <<"@">>

(* "issue.title" *)
patIssueTitle ==
  <<"i","s","s","u","e",".","t","i","t","l","e">>

(* "issue.body" *)
patIssueBody ==
  <<"i","s","s","u","e",".","b","o","d","y">>

(* "pull_request.title" *)
patPullRequestTitle ==
  <<"p","u","l","l","_","r","e","q","u","e","s","t",".","t","i","t","l","e">>

(* "pull_request.body" *)
patPullRequestBody ==
  <<"p","u","l","l","_","r","e","q","u","e","s","t",".","b","o","d","y">>

(* "comment.body" *)
patCommentBody ==
  <<"c","o","m","m","e","n","t",".","b","o","d","y">>

(* "review.body" *)
patReviewBody ==
  <<"r","e","v","i","e","w",".","b","o","d","y">>

(* "review_comment.body" *)
patReviewCommentBody ==
  <<"r","e","v","i","e","w","_","c","o","m","m","e","n","t",".","b","o","d","y">>

(* "pages" *)
patPages ==
  <<"p","a","g","e","s">>

(* ".page_name" *)
patPageName ==
  <<".","p","a","g","e","_","n","a","m","e">>

(* "commits" *)
patCommits ==
  <<"c","o","m","m","i","t","s">>

(* ".message" *)
patMessage ==
  <<".","m","e","s","s","a","g","e">>

(* "head_commit.message" *)
patHeadCommitMessage ==
  <<"h","e","a","d","_","c","o","m","m","i","t",".","m","e","s","s","a","g","e">>

(* "head_commit.author.email" *)
patHeadCommitAuthorEmail ==
  <<"h","e","a","d","_","c","o","m","m","i","t",".","a","u","t","h","o","r",".","e","m","a","i","l">>

(* "head_commit.author.name" *)
patHeadCommitAuthorName ==
  <<"h","e","a","d","_","c","o","m","m","i","t",".","a","u","t","h","o","r",".","n","a","m","e">>

(* ".author.email" *)
patAuthorEmail ==
  <<".","a","u","t","h","o","r",".","e","m","a","i","l">>

(* ".author.name" *)
patAuthorName ==
  <<".","a","u","t","h","o","r",".","n","a","m","e">>

(* "pull_request.head.ref" *)
patPullRequestHeadRef ==
  <<"p","u","l","l","_","r","e","q","u","e","s","t",".","h","e","a","d",".","r","e","f">>

(* "pull_request.head.label" *)
patPullRequestHeadLabel ==
  <<"p","u","l","l","_","r","e","q","u","e","s","t",".","h","e","a","d",".","l","a","b","e","l">>

(* "pull_request.head.repo.default_branch" *)
patPullRequestHeadRepoDefaultBranch ==
  <<"p","u","l","l","_","r","e","q","u","e","s","t",".","h","e","a","d",".","r","e","p","o",".","d","e","f","a","u","l","t","_","b","r","a","n","c","h">>

-----------------------------------------------------------------------------
(* Findings.                                                               *)

DangerousWorkflowUntrustedCheckout == "untrustedCheckout"
DangerousWorkflowScriptInjection == "scriptInjection"
DangerousWorkflowImposterReference == "imposterReference"

errInvalidGitHubWorkflow == "invalid GitHub workflow"

\* fileparser.GetLineNumber: the line of a position, the default offset for nil
GetLineNumber(pos) == IF pos = NilPtr THEN 1 ELSE pos[1].Line

\* a createJob that gives nil for a job with neither name nor id
createJobNilWhenBare(job) ==
  IF job = NilPtr \/ (job[1].Name = NilPtr /\ job[1].ID = NilPtr) THEN NilPtr
  ELSE Ptr([Name |-> job[1].Name, ID |-> job[1].ID])

\* createJob: job is a *actionlint.Job
createJob(job) ==
  IF job = NilPtr THEN NilPtr
  ELSE Ptr([Name |-> job[1].Name, ID |-> job[1].ID])

\* the checker.DangerousWorkflow literal the three analyzers append
DangerousWorkflow(type, path, line, snippet, job) ==
  [Type |-> type,
   File |-> [Path |-> path, Type |-> "FileTypeSource",
             Offset |-> line, Snippet |-> snippet],
   Job  |-> createJob(job)]

-----------------------------------------------------------------------------
(* Expression risk matcher.                                                *)

\* the regular expression of containsUntrustedContextPattern, unanchored
untrustedContextPattern(variable) ==
  \/ Contains(variable, patIssueTitle)
  \/ Contains(variable, patIssueBody)
  \/ Contains(variable, patPullRequestTitle)
  \/ Contains(variable, patPullRequestBody)
  \/ Contains(variable, patCommentBody)
  \/ Contains(variable, patReviewBody)
  \/ Contains(variable, patReviewCommentBody)
  \/ MatchGap(variable, patPages, patPageName)
  \/ MatchGap(variable, patCommits, patMessage)
  \/ Contains(variable, patHeadCommitMessage)
  \/ Contains(variable, patHeadCommitAuthorEmail)
  \/ Contains(variable, patHeadCommitAuthorName)
  \/ MatchGap(variable, patCommits, patAuthorEmail)
  \/ MatchGap(variable, patCommits, patAuthorName)
  \/ Contains(variable, patPullRequestHeadRef)
  \/ Contains(variable, patPullRequestHeadLabel)
  \/ Contains(variable, patPullRequestHeadRepoDefaultBranch)

containsUntrustedContextPattern(variable) ==
  IF Contains(variable, strGithubHeadRef) THEN TRUE
  ELSE Contains(variable, strGithubEvent) /\ untrustedContextPattern(variable)

-----------------------------------------------------------------------------
(* Script injection scanner.                                               *)

\* a scanner that stops at an unterminated expression without reporting it
RECURSIVE checkVariablesInScriptNoError(_, _, _, _, _)
checkVariablesInScriptNoError(script, pos, job, path, pdata) ==
  LET s == Index(script, strOpenExpr)
  IN  IF s = -1 THEN [data |-> pdata, err |-> Nil]
      ELSE
        LET e == Index(Slice(script, s, Len(script)), strCloseExpr)
        IN  IF e = -1 THEN [data |-> pdata, err |-> Nil]
            ELSE
              LET variable == Slice(script, s + 3, s + e)
                  appended ==
                    IF containsUntrustedContextPattern(variable)
                    THEN Append(pdata,
                           DangerousWorkflow(DangerousWorkflowScriptInjection,
                             path, GetLineNumber(pos), variable, job))
                    ELSE pdata
              IN  checkVariablesInScriptNoError(Slice(script, s + e, Len(script)),
                                                pos, job, path, appended)

\* checkVariablesInScript: the findings after the scan and the error returned
\* a scan that takes the variable from the second brace on
RECURSIVE checkVariablesInScriptFromBrace(_, _, _, _, _)
checkVariablesInScriptFromBrace(script, pos, job, path, pdata) ==
  LET s == Index(script, strOpenExpr)
  IN  IF s = -1 THEN [data |-> pdata, err |-> Nil]
      ELSE
        LET e == Index(Slice(script, s, Len(script)), strCloseExpr)
        IN  IF e = -1 THEN [data |-> pdata, err |-> errInvalidGitHubWorkflow]
            ELSE
              LET variable == Slice(script, s + 2, s + e)
                  appended ==
                    IF containsUntrustedContextPattern(variable)
                    THEN Append(pdata,
                           DangerousWorkflow(DangerousWorkflowScriptInjection,
                             path, GetLineNumber(pos), variable, job))
                    ELSE pdata
              IN  checkVariablesInScriptFromBrace(Slice(script, s + e, Len(script)),
                                                  pos, job, path, appended)

RECURSIVE checkVariablesInScript(_, _, _, _, _)
checkVariablesInScript(script, pos, job, path, pdata) ==
  LET s == Index(script, strOpenExpr)
  IN  IF s = -1 THEN [data |-> pdata, err |-> Nil]
      ELSE
        LET e == Index(Slice(script, s, Len(script)), strCloseExpr)
        IN  IF e = -1 THEN [data |-> pdata, err |-> errInvalidGitHubWorkflow]
            ELSE
              LET variable == Slice(script, s + 3, s + e)
                  appended ==
                    IF containsUntrustedContextPattern(variable)
                    THEN Append(pdata,
                           DangerousWorkflow(DangerousWorkflowScriptInjection,
                             path, GetLineNumber(pos), variable, job))
                    ELSE pdata
              IN  checkVariablesInScript(Slice(script, s + e, Len(script)),
                                         pos, job, path, appended)

-----------------------------------------------------------------------------
(* The scanner on its own: one call of checkVariablesInScript on a script  *)
(* body built of at most MaxFragments fragments.                           *)

MaxFragments == 4

strGithubEventCommitsAuthorName ==
  <<"g","i","t","h","u","b",".","e","v","e","n","t",".","c","o","m","m","i","t","s","[","0","]",".","a","u","t","h","o","r",".","n","a","m","e">>

(* echo "${{ github.event.issue.title }}" *)
scriptScenarioB ==
  <<"e","c","h","o"," ","\"","$","{","{"," ","g","i","t","h","u","b",".","e","v","e","n","t",".","i","s","s","u","e",".","t","i","t","l","e"," ","}","}","\"">>

ScriptFragments ==
  {strOpenExpr, strCloseExpr, <<"$">>, <<"{">>, <<"}">>, <<"x">>,
   strGithubHeadRef}

RECURSIVE Concats(_)
Concats(n) ==
  IF n = 0 THEN {<<>>}
  ELSE LET shorter == Concats(n - 1)
       IN  shorter \cup {p \o f : p \in shorter, f \in ScriptFragments}

Scripts ==
  Concats(MaxFragments)
    \cup {scriptScenarioB,
          strOpenExpr \o strGithubEventCommitsAuthorName \o strCloseExpr}

pathA == "a.yml"
pathB == "b.yml"

\* a job with a name and an id, and one with neither
jobNamed == Ptr([Name |-> Ptr("build"), ID |-> Ptr("j1"), Steps |-> <<>>])
jobBare == Ptr([Name |-> NilPtr, ID |-> NilPtr, Steps |-> <<>>])

\* a finding of an earlier file
priorFinding ==
  DangerousWorkflow(DangerousWorkflowUntrustedCheckout, pathB,
                    3, checkoutUntrustedPullRequestRef, jobNamed)

noHist == <<>>
noCalls == <<>>
noCache == [k \in {} |-> FALSE]

InitScript ==
  /\ arg \in [script : Scripts,
              pos    : {Ptr([Line |-> 7, Col |-> 9])},
              job    : {jobNamed, jobBare},
              path   : {pathA},
              pdata  : {<<>>, <<priorFinding>>}]
  /\ data = arg.pdata
  /\ ret = [err |-> Nil]
  /\ pc = "call"
  /\ calls = noCalls
  /\ cache = noCache
  /\ reach = {}
  /\ hist = noHist

ScanScript ==
  /\ pc = "call"
  /\ LET r == checkVariablesInScript(arg.script, arg.pos, arg.job, arg.path, data)
     IN  /\ data' = r.data
         /\ ret' = [err |-> r.err]
  /\ pc' = "done"
  /\ UNCHANGED <<calls, cache, arg, reach, hist>>

NextScript == ScanScript

SpecScript == InitScript /\ [][NextScript]_vars

-----------------------------------------------------------------------------
(* Claims about the scanner.                                               *)

\* some "${{" of the script has no "}}" anywhere after it
Unterminated(script) ==
  \E i \in 0..Len(script) :
     /\ HasPrefixAt(script, strOpenExpr, i)
     /\ \A j \in (i + 3)..Len(script) : ~HasPrefixAt(script, strCloseExpr, j)

\* The scan as section 4.2 words it: the next "${{", the next "}}" strictly
\* after it, the text between them, the cursor just past the "}}"; the
\* candidates read before the scan stops.
RECURSIVE CandidatesFrom(_, _)
CandidatesFrom(script, cursor) ==
  LET rest == Slice(script, cursor, Len(script))
      s    == Index(rest, strOpenExpr)
  IN  IF s = -1 THEN <<>>
      ELSE
        LET after == Slice(rest, s + 3, Len(rest))
            e     == Index(after, strCloseExpr)
        IN  IF e = -1 THEN <<>>
            ELSE <<Slice(after, 0, e)>>
                   \o CandidatesFrom(script, cursor + s + 3 + e + 2)

RECURSIVE RiskyOnly(_)
RiskyOnly(cands) ==
  IF cands = <<>> THEN <<>>
  ELSE (IF containsUntrustedContextPattern(Head(cands))
        THEN <<Head(cands)>> ELSE <<>>) \o RiskyOnly(Tail(cands))

ScriptFindings(cands) ==
  [i \in 1..Len(cands) |->
     DangerousWorkflow(DangerousWorkflowScriptInjection, arg.path,
                       GetLineNumber(arg.pos), cands[i], arg.job)]

ScanDone == pc = "done" /\ "script" \in DOMAIN arg

\* C7 as stated: a script with an unterminated "${{" yields the malformed-
\* workflow error and leaves the accumulator exactly as it was before the scan.
C7_AsStated ==
  (ScanDone /\ Unterminated(arg.script)) =>
     (ret.err = errInvalidGitHubWorkflow /\ data = arg.pdata)

\* C7 amended: a script with an unterminated "${{" yields the malformed-
\* workflow error; the accumulator keeps what it held and gains exactly one
\* finding per risky, terminated expression that precedes the unterminated
\* one, in order, and nothing for the unterminated one or what follows it.
C7_ErrorKeepsEarlierFindings ==
  (ScanDone /\ Unterminated(arg.script)) =>
     /\ ret.err = errInvalidGitHubWorkflow
     /\ data = arg.pdata
                 \o ScriptFindings(RiskyOnly(CandidatesFrom(arg.script, 0)))

\* an unterminated script whose earlier risky expression left a finding
C7_Witness ==
  /\ ScanDone
  /\ Unterminated(arg.script)
  /\ ret.err = errInvalidGitHubWorkflow
  /\ Len(data) > Len(arg.pdata)
  /\ arg.pdata # <<>>

-----------------------------------------------------------------------------
(* Workflows, as actionlint.Parse hands them over.                         *)
(* workflow == [On : sequence of event names, Jobs : map key -> *Job]      *)
(* job      == [Name, ID : *string, Steps : sequence of *Step]             *)
(* step     == [Pos : *Pos, Exec : ExecAction, ExecRun or none]            *)

triggerPullRequestTarget == "pull_request_target"
triggerWorkflowRun == "workflow_run"

NoInputs == [n \in {} |-> NilPtr]

\* a step running an action: uses is the reference, inputs the "with" map
ActionStep(line, uses, inputs) ==
  Ptr([Pos  |-> Ptr([Line |-> line, Col |-> 1]),
       Exec |-> [kind |-> "action", Uses |-> uses, Inputs |-> inputs]])

\* a step running an inline script
RunStep(line, script) ==
  Ptr([Pos  |-> Ptr([Line |-> line, Col |-> 1]),
       Exec |-> [kind |-> "run",
                 Run  |-> Ptr([Value |-> script,
                               Pos   |-> Ptr([Line |-> line, Col |-> 3])])]])

\* a step with neither
InertStep(line) ==
  Ptr([Pos |-> Ptr([Line |-> line, Col |-> 1]), Exec |-> [kind |-> "none"]])

\* the orders in which a range over a Go map can visit its keys
Orders(m) ==
  LET n == Cardinality(DOMAIN m)
  IN  {o \in [1..n -> DOMAIN m] : \A i, j \in 1..n : o[i] = o[j] => i = j}

-----------------------------------------------------------------------------
(* Trigger and checkout analyzer.                                          *)

\* usesEventTrigger, which finds the trigger whatever the workflow declares
usesEventTriggerAlways(workflow, name) == TRUE

usesEventTrigger(workflow, name) ==
  \E i \in 1..Len(workflow.On) : workflow.On[i] = name

\* whether the loop body of checkJobForUntrustedCodeCheckout reaches the append
stepChecksOutUntrustedRef(step) ==
  /\ step # NilPtr
  /\ step[1].Exec.kind = "action"
  /\ step[1].Exec.Uses # NilPtr
  /\ Contains(step[1].Exec.Uses[1], strActionsCheckout)
  /\ "ref" \in DOMAIN step[1].Exec.Inputs
  /\ step[1].Exec.Inputs["ref"].Value # NilPtr
  /\ \/ Contains(step[1].Exec.Inputs["ref"].Value[1], checkoutUntrustedPullRequestRef)
     \/ Contains(step[1].Exec.Inputs["ref"].Value[1], checkoutUntrustedWorkflowRunRef)

\* the loop over job.Steps from step i on
RECURSIVE checkStepsForUntrustedCodeCheckout(_, _, _, _)
checkStepsForUntrustedCodeCheckout(job, i, path, pdata) ==
  IF i > Len(job[1].Steps) THEN pdata
  ELSE
    LET step == job[1].Steps[i]
        appended ==
          IF stepChecksOutUntrustedRef(step)
          THEN Append(pdata,
                 DangerousWorkflow(DangerousWorkflowUntrustedCheckout, path,
                   GetLineNumber(step[1].Pos),
                   step[1].Exec.Inputs["ref"].Value[1], job))
          ELSE pdata
    IN  checkStepsForUntrustedCodeCheckout(job, i + 1, path, appended)

\* a job loop that returns after its first finding
RECURSIVE checkStepsStopAtFirst(_, _, _, _)
checkStepsStopAtFirst(job, i, path, pdata) ==
  IF i > Len(job[1].Steps) THEN pdata
  ELSE
    LET step == job[1].Steps[i]
    IN  IF stepChecksOutUntrustedRef(step)
        THEN Append(pdata,
               DangerousWorkflow(DangerousWorkflowUntrustedCheckout, path,
                 GetLineNumber(step[1].Pos),
                 step[1].Exec.Inputs["ref"].Value[1], job))
        ELSE checkStepsStopAtFirst(job, i + 1, path, pdata)

checkJobStopAtFirst(job, path, pdata) ==
  IF job = NilPtr THEN [data |-> pdata, err |-> Nil]
  ELSE [data |-> checkStepsStopAtFirst(job, 1, path, pdata), err |-> Nil]

checkJobForUntrustedCodeCheckout(job, path, pdata) ==
  IF job = NilPtr THEN [data |-> pdata, err |-> Nil]
  ELSE [data |-> checkStepsForUntrustedCodeCheckout(job, 1, path, pdata),
        err  |-> Nil]

\* the loop over workflow.Jobs, visited in the given order, from the n-th on
RECURSIVE checkJobsForUntrustedCodeCheckout(_, _, _, _, _)
checkJobsForUntrustedCodeCheckout(workflow, order, n, path, pdata) ==
  IF n > Len(order) THEN [data |-> pdata, err |-> Nil]
  ELSE
    LET r == checkJobForUntrustedCodeCheckout(workflow.Jobs[order[n]], path, pdata)
    IN  IF r.err # Nil THEN r
        ELSE checkJobsForUntrustedCodeCheckout(workflow, order, n + 1, path, r.data)

validateUntrustedCodeCheckout(workflow, path, pdata, order) ==
  IF /\ ~usesEventTrigger(workflow, triggerPullRequestTarget)
     /\ ~usesEventTrigger(workflow, triggerWorkflowRun)
  THEN [data |-> pdata, err |-> Nil]
  ELSE checkJobsForUntrustedCodeCheckout(workflow, order, 1, path, pdata)

-----------------------------------------------------------------------------
(* The checkout analyzer on its own: one call of                           *)
(* validateUntrustedCodeCheckout on a workflow of at most two jobs and at  *)
(* most MaxSteps steps in all.                                             *)

MaxSteps == 3

shaD1 == <<"d","1">>
shaD2 == <<"d","2">>
shaD3 == <<"d","3">>
repoOR == <<"o","/","r">>
repoOQ == <<"o","/","q">>

(* ${{ github.event.pull_request.head.sha }} *)
refPullRequestHeadSha ==
  <<"$","{","{"," ","g","i","t","h","u","b",".","e","v","e","n","t",".","p","u","l","l","_","r","e","q","u","e","s","t",".","h","e","a","d",".","s","h","a"," ","}","}">>

(* github.event.workflow_run.head_branch *)
refWorkflowRunHeadBranch ==
  <<"g","i","t","h","u","b",".","e","v","e","n","t",".","w","o","r","k","f","l","o","w","_","r","u","n",".","h","e","a","d","_","b","r","a","n","c","h">>

refMain == <<"m","a","i","n">>

scriptEchoHi == <<"e","c","h","o"," ","h","i">>

usesCheckout == Ptr(strActionsCheckout \o strAt \o shaD1)

WithRef(value) == [n \in {"ref"} |-> [Value |-> value]]

CheckoutStepPool ==
  {ActionStep(11, usesCheckout, WithRef(Ptr(refPullRequestHeadSha))),
   ActionStep(12, usesCheckout, WithRef(Ptr(refWorkflowRunHeadBranch))),
   ActionStep(13, usesCheckout, WithRef(Ptr(refMain))),
   ActionStep(14, usesCheckout, NoInputs),
   ActionStep(15, usesCheckout, WithRef(NilPtr)),
   ActionStep(16, Ptr(repoOR \o strAt \o shaD1), WithRef(Ptr(refPullRequestHeadSha))),
   RunStep(17, scriptEchoHi)}

\* the sequences of at most n elements of S
SeqsUpTo(S, n) == UNION {[1..k -> S] : k \in 0..n}

JobKeys == {"j1", "j2"}

\* the first job has a name, the second has none
JobName(k) == IF k = "j1" THEN Ptr("build") ELSE NilPtr

TriggerLists ==
  {<<>>, <<"push">>, <<triggerPullRequestTarget>>, <<"push", triggerWorkflowRun>>}

MakeJob(k, steps) == Ptr([Name |-> JobName(k), ID |-> Ptr(k), Steps |-> steps])

\* the job maps with steps of the pool: no job, one job, or two jobs, with at
\* most MaxSteps steps in all
JobMapsOf(pool) ==
  {[k \in {} |-> NilPtr]}
    \cup UNION {{[k \in {k1} |-> MakeJob(k, s1)] : s1 \in SeqsUpTo(pool, MaxSteps)} :
                k1 \in JobKeys}
    \cup UNION {{[k \in JobKeys |-> MakeJob(k, IF k = "j1" THEN s1 ELSE s2)] :
                   s2 \in SeqsUpTo(pool, MaxSteps - Len(s1))} :
                s1 \in SeqsUpTo(pool, MaxSteps)}

\* the workflows with jobs of the pool, under each list of triggers
WorkflowsOf(pool) ==
  {[On |-> on, Jobs |-> jobs] : on \in TriggerLists, jobs \in JobMapsOf(pool)}

InitCheckout ==
  /\ \E w \in WorkflowsOf(CheckoutStepPool) :
       arg \in [workflow : {w}, path : {pathA}, order : Orders(w.Jobs),
                pdata : {<<>>, <<priorFinding>>}]
  /\ data = arg.pdata
  /\ ret = [err |-> Nil]
  /\ pc = "call"
  /\ calls = noCalls
  /\ cache = noCache
  /\ reach = {}
  /\ hist = noHist

CheckoutWorkflow ==
  /\ pc = "call"
  /\ LET r == validateUntrustedCodeCheckout(arg.workflow, arg.path, data, arg.order)
     IN  /\ data' = r.data
         /\ ret' = [err |-> r.err]
  /\ pc' = "done"
  /\ UNCHANGED <<calls, cache, arg, reach, hist>>

NextCheckout == CheckoutWorkflow

SpecCheckout == InitCheckout /\ [][NextCheckout]_vars

-----------------------------------------------------------------------------
(* Claims about the checkout analyzer.                                     *)

CheckoutDone == pc = "done" /\ "workflow" \in DOMAIN arg /\ "order" \in DOMAIN arg

\* what the operation appended to the accumulator
Appended == SubSeq(data, Len(arg.pdata) + 1, Len(data))

\* the workflow declares a trigger of that name
Declares(workflow, name) == name \in {workflow.On[i] : i \in DOMAIN workflow.On}

DeclaresRiskyTrigger(workflow) ==
  Declares(workflow, "pull_request_target") \/ Declares(workflow, "workflow_run")

\* an action-reference step whose uses contains actions/checkout and whose
\* ref input value contains github.event.pull_request or github.event.workflow_run
IsUntrustedCheckoutStep(step) ==
  /\ step[1].Exec.kind = "action"
  /\ step[1].Exec.Uses # NilPtr
  /\ Contains(step[1].Exec.Uses[1], strActionsCheckout)
  /\ "ref" \in DOMAIN step[1].Exec.Inputs
  /\ step[1].Exec.Inputs["ref"].Value # NilPtr
  /\ LET v == step[1].Exec.Inputs["ref"].Value[1]
     IN  \/ Contains(v, checkoutUntrustedPullRequestRef)
         \/ Contains(v, checkoutUntrustedWorkflowRunRef)

UntrustedCheckoutSteps(job) == SelectSeq(job[1].Steps, IsUntrustedCheckoutStep)

\* the (line, snippet) pairs of the findings of a type appended for job k
AppendedFor(k, type) ==
  LET mine == SelectSeq(Appended,
                LAMBDA f : f.Type = type /\ f.Job # NilPtr /\ f.Job[1].ID = Ptr(k))
  IN  [i \in 1..Len(mine) |-> <<mine[i].File.Offset, mine[i].File.Snippet>>]

\* C5: a workflow that declares neither pull_request_target nor workflow_run
\* gets no UntrustedCheckout finding, whatever its jobs, steps and refs are.
C5_NoTriggerNoFinding ==
  (CheckoutDone /\ ~DeclaresRiskyTrigger(arg.workflow)) =>
     /\ data = arg.pdata
     /\ ret.err = Nil

\* a workflow without the triggers that checks out an untrusted ref
C5_Witness ==
  /\ CheckoutDone
  /\ ~DeclaresRiskyTrigger(arg.workflow)
  /\ arg.workflow.On # <<>>
  /\ \E k \in DOMAIN arg.workflow.Jobs :
        Len(UntrustedCheckoutSteps(arg.workflow.Jobs[k])) = 2
  /\ data = arg.pdata

\* C6: under pull_request_target or workflow_run, the findings appended are
\* UntrustedCheckout findings, one per step that uses actions/checkout with a
\* ref containing github.event.pull_request or github.event.workflow_run, in
\* step order within each job, with the ref value as snippet; no other step
\* gets one, and a job with several such steps gets several.
C6_OneFindingPerUntrustedCheckout ==
  (CheckoutDone /\ DeclaresRiskyTrigger(arg.workflow)) =>
     /\ ret.err = Nil
     /\ SubSeq(data, 1, Len(arg.pdata)) = arg.pdata
     /\ \A i \in 1..Len(Appended) :
           /\ Appended[i].Type = DangerousWorkflowUntrustedCheckout
           /\ Appended[i].Job # NilPtr
           /\ \E k \in DOMAIN arg.workflow.Jobs : Appended[i].Job[1].ID = Ptr(k)
     /\ \A k \in DOMAIN arg.workflow.Jobs :
           LET steps == UntrustedCheckoutSteps(arg.workflow.Jobs[k])
           IN  AppendedFor(k, DangerousWorkflowUntrustedCheckout)
                 = [i \in 1..Len(steps) |->
                      <<steps[i][1].Pos[1].Line,
                        steps[i][1].Exec.Inputs["ref"].Value[1]>>]

\* a job of three steps, two of them untrusted checkouts, yields two findings
C6_Witness ==
  /\ CheckoutDone
  /\ DeclaresRiskyTrigger(arg.workflow)
  /\ DOMAIN arg.workflow.Jobs = JobKeys
  /\ Len(arg.workflow.Jobs["j1"][1].Steps) = 3
  /\ Len(AppendedFor("j1", DangerousWorkflowUntrustedCheckout)) = 2
  /\ Len(Appended) = 2

-----------------------------------------------------------------------------
(* The repository client.  Every call on it, and githubrepo.MakeGithubRepo *)
(* before it, can fail.  An operation is given the number of calls after   *)
(* which one fails: the fail-th call from now returns an error, and 0      *)
(* means that none does.                                                   *)

strRefsHeads == <<"r","e","f","s","/","h","e","a","d","s","/">>
strRefsTags == <<"r","e","f","s","/","t","a","g","s","/">>
branchMain == <<"m","a","i","n">>
branchDev == <<"d","e","v">>
tagV1 == <<"v","1">>

\* c.ListBranches() and c.ListTags() of the client of a repository
ListBranches(repo) == IF repo = repoOR THEN <<branchMain, branchDev>> ELSE <<branchMain>>
ListTags(repo) == IF repo = repoOQ THEN <<>> ELSE <<tagV1>>

\* c.ContainsRevision(base, target) of the client of a repository
ContainsRevision(repo, base, target) == <<repo, base, target>> \in reach

Fails(fail) == fail = 1
Tick(fail) == IF fail = 0 THEN 0 ELSE fail - 1

Call(op, repo) == [op |-> op, repo |-> repo]
CallContainsRevision(repo, base, target) ==
  [op |-> "ContainsRevision", repo |-> repo, base |-> base, target |-> target]

\* a loop over the refs that goes on after a ref contains the target
RECURSIVE containsInRefsToTheEnd(_, _, _, _, _, _)
containsInRefsToTheEnd(repo, prefix, names, i, target, fail) ==
  IF i > Len(names) THEN [out |-> FALSE, err |-> Nil, log |-> <<>>, fail |-> fail]
  ELSE
    LET base == prefix \o names[i]
        call == CallContainsRevision(repo, base, target)
    IN  IF Fails(fail)
        THEN [out |-> FALSE, err |-> "ContainsRevision failed",
              log |-> <<call>>, fail |-> 0]
        ELSE LET r == containsInRefsToTheEnd(repo, prefix, names, i + 1, target,
                                             Tick(fail))
             IN  [r EXCEPT !.log = <<call>> \o r.log,
                           !.out = r.err = Nil
                                     /\ (r.out \/ ContainsRevision(repo, base, target))]

\* the loops of checkImposterCommit over branches (prefix refs/heads/) and
\* tags (prefix refs/tags/), from the i-th name on
RECURSIVE containsInRefs(_, _, _, _, _, _)
containsInRefs(repo, prefix, names, i, target, fail) ==
  IF i > Len(names) THEN [out |-> FALSE, err |-> Nil, log |-> <<>>, fail |-> fail]
  ELSE
    LET base == prefix \o names[i]
        call == CallContainsRevision(repo, base, target)
    IN  IF Fails(fail)
        THEN [out |-> FALSE, err |-> "ContainsRevision failed",
              log |-> <<call>>, fail |-> 0]
        ELSE IF ContainsRevision(repo, base, target)
        THEN [out |-> TRUE, err |-> Nil, log |-> <<call>>, fail |-> Tick(fail)]
        ELSE LET r == containsInRefs(repo, prefix, names, i + 1, target, Tick(fail))
             IN  [r EXCEPT !.log = <<call>> \o r.log]

\* a lookup that asks the branches and never the tags
checkImposterCommitBranchesOnly(repo, target, fail) ==
  IF Fails(fail)
  THEN [out |-> FALSE, err |-> "ListBranches failed",
        log |-> <<Call("ListBranches", repo)>>, fail |-> 0]
  ELSE
    LET b == containsInRefs(repo, strRefsHeads, ListBranches(repo), 1, target, Tick(fail))
    IN  [b EXCEPT !.log = <<Call("ListBranches", repo)>> \o b.log]

\* checkImposterCommit, on the client of repo
checkImposterCommit(repo, target, fail) ==
  IF Fails(fail)
  THEN [out |-> FALSE, err |-> "ListBranches failed",
        log |-> <<Call("ListBranches", repo)>>, fail |-> 0]
  ELSE
    LET b == containsInRefs(repo, strRefsHeads, ListBranches(repo), 1, target, Tick(fail))
        logB == <<Call("ListBranches", repo)>> \o b.log
    IN  IF b.err # Nil \/ b.out THEN [b EXCEPT !.log = logB]
        ELSE IF Fails(b.fail)
        THEN [out |-> FALSE, err |-> "ListTags failed",
              log |-> logB \o <<Call("ListTags", repo)>>, fail |-> 0]
        ELSE
          LET t == containsInRefs(repo, strRefsTags, ListTags(repo), 1, target, Tick(b.fail))
          IN  [t EXCEPT !.log = logB \o <<Call("ListTags", repo)>> \o t.log]

-----------------------------------------------------------------------------
(* Reachability cache.                                                     *)

commitKey(repo, sha) == [repo |-> repo, sha |-> sha]

\* c.cache[key] = out
Store(c, key, out) ==
  [k \in DOMAIN c \cup {key} |-> IF k = key THEN out ELSE c[k]]

\* a Contains that does not store the result of a lookup
ContainsNoStore(c, repo, sha, fail) ==
  LET key == commitKey(repo, sha)
  IN  IF Fails(fail)
      THEN [out |-> FALSE, err |-> "MakeGithubRepo failed", cache |-> c,
            log |-> <<Call("MakeGithubRepo", repo)>>, fail |-> 0]
      ELSE IF Fails(Tick(fail))
      THEN [out |-> FALSE, err |-> "NewClient failed", cache |-> c,
            log |-> <<Call("MakeGithubRepo", repo), Call("NewClient", repo)>>,
            fail |-> 0]
      ELSE
        LET r == checkImposterCommit(repo, sha, Tick(Tick(fail)))
        IN  [out |-> r.out, err |-> r.err, cache |-> c,
             log |-> <<Call("MakeGithubRepo", repo), Call("NewClient", repo)>> \o r.log,
             fail |-> r.fail]

\* containsCache.Contains: the answer, the error, the cache afterwards, the
\* calls made and the calls left before the failure
ContainsCached(c, repo, sha, fail) ==
  LET key == commitKey(repo, sha)
  IN  IF key \in DOMAIN c
      THEN [out |-> c[key], err |-> Nil, cache |-> c, log |-> <<>>, fail |-> fail]
      ELSE IF Fails(fail)
      THEN [out |-> FALSE, err |-> "MakeGithubRepo failed", cache |-> c,
            log |-> <<Call("MakeGithubRepo", repo)>>, fail |-> 0]
      ELSE IF Fails(Tick(fail))
      THEN [out |-> FALSE, err |-> "NewClient failed", cache |-> c,
            log |-> <<Call("MakeGithubRepo", repo), Call("NewClient", repo)>>,
            fail |-> 0]
      ELSE
        LET r == checkImposterCommit(repo, sha, Tick(Tick(fail)))
        IN  [out |-> r.out, err |-> r.err, cache |-> Store(c, key, r.out),
             log |-> <<Call("MakeGithubRepo", repo), Call("NewClient", repo)>> \o r.log,
             fail |-> r.fail]

-----------------------------------------------------------------------------
(* The cache on its own: at most MaxContains calls of Contains on one      *)
(* containsCache, as a test in package raw makes them.                     *)

MaxContains == 3

\* the most calls one lookup makes
MaxLookupCalls == 4 + Len(ListBranches(repoOR)) + Len(ListTags(repoOR))

\* the remote repositories of the run: d1 is on a branch of o/r, d2 on a tag
\* of o/r only, d3 nowhere
reachOfRun ==
  {<<repoOR, strRefsHeads \o branchDev, shaD1>>,
   <<repoOR, strRefsTags \o tagV1, shaD2>>,
   <<repoOQ, strRefsHeads \o branchMain, shaD1>>,
   <<strActionsCheckout, strRefsTags \o tagV1, shaD1>>}

\* the same repositories with d1 on every branch and on the tag of o/r
reachOnEveryRef ==
  reachOfRun \cup {<<repoOR, strRefsHeads \o branchMain, shaD1>>,
                    <<repoOR, strRefsTags \o tagV1, shaD1>>}

\* the remote repositories a run can meet
ReachPool == {{}, reachOfRun, reachOnEveryRef}

\* the pairs asked for: found on a branch, on a tag, nowhere, and in
\* another repository
CacheKeys ==
  {commitKey(repoOR, shaD1), commitKey(repoOR, shaD2),
   commitKey(repoOR, shaD3), commitKey(repoOQ, shaD1)}

InitCache ==
  /\ cache = noCache
  /\ calls = noCalls
  /\ hist = noHist
  /\ reach \in ReachPool
  /\ data = <<>>
  /\ ret = [out |-> FALSE, err |-> Nil]
  /\ arg = [repo |-> <<>>, sha |-> <<>>]
  /\ pc = "idle"

CallContains ==
  /\ Len(hist) < MaxContains
  /\ \E key \in CacheKeys, fail \in 0..MaxLookupCalls :
       LET repo == key.repo
           sha  == key.sha
           r    == ContainsCached(cache, repo, sha, fail)
       IN  /\ arg' = [repo |-> repo, sha |-> sha]
           /\ cache' = r.cache
           /\ calls' = calls \o r.log
           /\ ret' = [out |-> r.out, err |-> r.err]
           /\ hist' = Append(hist, [repo |-> repo, sha |-> sha, out |-> r.out,
                                    err |-> r.err, log |-> r.log])
  /\ pc' = "returned"
  /\ UNCHANGED <<data, reach>>

NextCache == CallContains

SpecCache == InitCache /\ [][NextCache]_vars

-----------------------------------------------------------------------------
(* Claims about the cache.                                                 *)

\* the errors of the calls checkImposterCommit makes on the client
LookupErrors == {"ListBranches failed", "ListTags failed", "ContainsRevision failed"}

SameKey(a, b) == a.repo = b.repo /\ a.sha = b.sha

\* C1 as stated: when Contains fails because ListBranches, ListTags or
\* ContainsRevision returned an error, the cache holds no entry for the key,
\* and the next Contains for the key makes the remote lookup again.
C1_FailedLookupNotCached ==
  \A i \in 1..Len(hist) :
     hist[i].err \in LookupErrors =>
        /\ i = Len(hist) => commitKey(hist[i].repo, hist[i].sha) \notin DOMAIN cache
        /\ (i < Len(hist) /\ SameKey(hist[i + 1], hist[i])) => hist[i + 1].log # <<>>

\* C2: once a Contains for a pair has succeeded, every later Contains for the
\* pair makes no call at all (no NewClient, ListBranches, ListTags or
\* ContainsRevision) and returns, without error, the boolean of that call.
C2_SecondContainsFromCache ==
  \A i, j \in 1..Len(hist) :
     (i < j /\ SameKey(hist[i], hist[j]) /\ hist[i].err = Nil) =>
        /\ hist[j].log = <<>>
        /\ hist[j].err = Nil
        /\ hist[j].out = hist[i].out

\* a lookup that found the revision, another pair, then the first pair again
C2_Witness ==
  /\ Len(hist) = 3
  /\ hist[1].err = Nil /\ hist[1].out /\ hist[1].log # <<>>
  /\ ~SameKey(hist[2], hist[1])
  /\ SameKey(hist[3], hist[1])
  /\ hist[3].log = <<>> /\ hist[3].out /\ hist[3].err = Nil

-----------------------------------------------------------------------------
(* Imposter commit detector.                                               *)

\* the loops of validateImposterCommits over workflow.Jobs, visited in the
\* given order, and job.Steps: from step i of the n-th job on, with
\* st = [data, cache, log, fail] the findings, the cache, the calls made
\* and the calls left before the failure
RECURSIVE imposterLoop(_, _, _, _, _, _)
imposterLoop(workflow, order, n, i, path, st) ==
  IF n > Len(order) THEN [st EXCEPT !.err = Nil]
  ELSE
    LET job == workflow.Jobs[order[n]]
    IN  IF i > Len(job[1].Steps)
        THEN imposterLoop(workflow, order, n + 1, 1, path, st)
        ELSE
          LET step == job[1].Steps[i]
          IN  IF step[1].Exec.kind # "action"
              THEN imposterLoop(workflow, order, n, i + 1, path, st)
              ELSE
                LET ref        == step[1].Exec.Uses[1]
                    trimmedRef == TrimPrefix(ref, strActionsScheme)
                    s          == Split(trimmedRef, strAt)
                IN  IF Len(s) # 2
                    THEN [st EXCEPT !.err = "unexpected reference"]
                    ELSE
                      LET r == ContainsCached(st.cache, s[1], s[2], st.fail)
                          appended ==
                            IF ~r.out
                            THEN Append(st.data,
                                   DangerousWorkflow(DangerousWorkflowImposterReference,
                                     path, GetLineNumber(step[1].Pos), trimmedRef, job))
                            ELSE st.data
                      IN  IF r.err # Nil
                          THEN [st EXCEPT !.err = r.err, !.cache = r.cache,
                                          !.log = st.log \o r.log, !.fail = r.fail]
                          ELSE imposterLoop(workflow, order, n, i + 1, path,
                                 [st EXCEPT !.data = appended, !.cache = r.cache,
                                            !.log = st.log \o r.log, !.fail = r.fail])

\* validateImposterCommits: a fresh cache, then the loops
validateImposterCommits(workflow, path, pdata, order, fail) ==
  imposterLoop(workflow, order, 1, 1, path,
               [data |-> pdata, cache |-> noCache, log |-> <<>>,
                fail |-> fail, err |-> Nil])

-----------------------------------------------------------------------------
(* The detector on its own: one call of validateImposterCommits on a       *)
(* workflow of at most two jobs and at most MaxSteps steps in all.         *)

Uses(repo, sha) == Ptr(repo \o strAt \o sha)

ImposterStepPool ==
  {ActionStep(21, Uses(repoOR, shaD1), NoInputs),
   ActionStep(22, Uses(repoOR, shaD2), NoInputs),
   ActionStep(23, Uses(repoOR, shaD3), NoInputs),
   ActionStep(24, Ptr(strActionsScheme \o repoOR \o strAt \o shaD3), NoInputs),
   ActionStep(25, Ptr(repoOR), NoInputs),
   ActionStep(26, Ptr(repoOR \o strAt \o shaD1 \o strAt \o shaD2), NoInputs)}

ImposterWorkflows ==
  {[On |-> <<"push">>, Jobs |-> jobs] : jobs \in JobMapsOf(ImposterStepPool)}

InitImposter ==
  /\ \E w \in ImposterWorkflows :
       arg \in [workflow : {w}, path : {pathA}, order : Orders(w.Jobs),
                pdata : {<<priorFinding>>}]
  /\ data = arg.pdata
  /\ ret = [err |-> Nil]
  /\ pc = "call"
  /\ calls = noCalls
  /\ cache = noCache
  /\ reach = reachOfRun
  /\ hist = noHist

\* one call of validateImposterCommits; any one of the calls it makes on
\* the client can fail
ImposterWorkflow ==
  /\ pc = "call"
  /\ LET calm == validateImposterCommits(arg.workflow, arg.path, data, arg.order, 0)
     IN  \E fail \in 0..Len(calm.log) :
           LET r == validateImposterCommits(arg.workflow, arg.path, data, arg.order, fail)
           IN  /\ data' = r.data
               /\ calls' = calls \o r.log
               /\ ret' = [err |-> r.err]
  /\ pc' = "done"
  /\ UNCHANGED <<cache, arg, reach, hist>>

NextImposter == ImposterWorkflow

SpecImposter == InitImposter /\ [][NextImposter]_vars

-----------------------------------------------------------------------------
(* Claims about the imposter commit detector.                              *)

ImposterDone == pc = "done" /\ "workflow" \in DOMAIN arg /\ "order" \in DOMAIN arg

\* the steps in the order they are visited, each with the key of its job
RECURSIVE VisitFrom(_, _, _)
VisitFrom(workflow, order, n) ==
  IF n > Len(order) THEN <<>>
  ELSE LET steps == workflow.Jobs[order[n]][1].Steps
       IN  [i \in 1..Len(steps) |-> [key |-> order[n], step |-> steps[i]]]
             \o VisitFrom(workflow, order, n + 1)

Visited == VisitFrom(arg.workflow, arg.order, 1)

IsActionStep(step) == step[1].Exec.kind = "action"

\* the reference of an action step without its actions:// prefix
RefOf(step) ==
  LET uses == step[1].Exec.Uses[1]
  IN  IF Len(uses) >= 10 /\ SubSeq(uses, 1, 10) = strActionsScheme
      THEN SubSeq(uses, 11, Len(uses)) ELSE uses

AtSigns(ref) == {i \in 1..Len(ref) : ref[i] = "@"}
WellFormed(ref) == Cardinality(AtSigns(ref)) = 1
RepoOf(ref) == SubSeq(ref, 1, (CHOOSE i \in AtSigns(ref) : TRUE) - 1)
ShaOf(ref) == SubSeq(ref, (CHOOSE i \in AtSigns(ref) : TRUE) + 1, Len(ref))

\* sha is contained in a branch or a tag of repo
Reachable(repo, sha) ==
  \/ \E i \in 1..Len(ListBranches(repo)) :
        <<repo, strRefsHeads \o ListBranches(repo)[i], sha>> \in reach
  \/ \E i \in 1..Len(ListTags(repo)) :
        <<repo, strRefsTags \o ListTags(repo)[i], sha>> \in reach

Malformed(e) == IsActionStep(e.step) /\ ~WellFormed(RefOf(e.step))
Imposter(e) ==
  /\ IsActionStep(e.step)
  /\ WellFormed(RefOf(e.step))
  /\ ~Reachable(RepoOf(RefOf(e.step)), ShaOf(RefOf(e.step)))

\* what a finding says of its step: type, snippet, line and job
Said(f) == <<f.Type, f.File.Snippet, f.File.Offset, f.Job[1].ID>>

\* what the findings of the imposters among the first m visited steps say
ImposterFindings(m) ==
  LET imposters == SelectSeq(SubSeq(Visited, 1, m), Imposter)
  IN  [i \in 1..Len(imposters) |->
         <<DangerousWorkflowImposterReference, RefOf(imposters[i].step),
           imposters[i].step[1].Pos[1].Line, Ptr(imposters[i].key)>>]

AppendedSaid == [i \in 1..Len(Appended) |-> Said(Appended[i])]

\* the first malformed reference is the f-th visited step (0: there is none)
FirstMalformed ==
  LET bad == {i \in 1..Len(Visited) : Malformed(Visited[i])}
  IN  IF bad = {} THEN 0 ELSE CHOOSE i \in bad : \A j \in bad : i <= j

\* the lookups made for a pair: each asks the first branch of the repository
Lookups(repo, sha) ==
  Cardinality({i \in 1..Len(calls) :
                 /\ calls[i].op = "ContainsRevision"
                 /\ calls[i].repo = repo
                 /\ calls[i].base = strRefsHeads \o ListBranches(repo)[1]
                 /\ calls[i].target = sha})

\* the pairs of the well-formed references among the first m visited steps
PairsBefore(m) ==
  {commitKey(RepoOf(RefOf(Visited[i].step)), ShaOf(RefOf(Visited[i].step))) :
     i \in {j \in 1..m : IsActionStep(Visited[j].step)
                           /\ WellFormed(RefOf(Visited[j].step))}}

StepsWithRef(k, ref) ==
  {i \in 1..Len(arg.workflow.Jobs[k][1].Steps) :
     /\ IsActionStep(arg.workflow.Jobs[k][1].Steps[i])
     /\ RefOf(arg.workflow.Jobs[k][1].Steps[i]) = ref}

FindingsWithRef(ref) ==
  {i \in 1..Len(Appended) :
     /\ Appended[i].Type = DangerousWorkflowImposterReference
     /\ Appended[i].File.Snippet = ref}

\* C3: in a workflow analysed without error, a reference to an unreachable
\* sha that occurs once in each of two jobs gets exactly two ImposterCommit
\* findings and one remote lookup, in whichever order the jobs are visited.
C3_TwoFindingsOneLookup ==
  (ImposterDone /\ ret.err = Nil /\ DOMAIN arg.workflow.Jobs = JobKeys) =>
     \A i \in 1..Len(Visited) :
        LET ref == RefOf(Visited[i].step)
        IN  (/\ Imposter(Visited[i])
             /\ Cardinality(StepsWithRef("j1", ref)) = 1
             /\ Cardinality(StepsWithRef("j2", ref)) = 1) =>
               /\ Cardinality(FindingsWithRef(ref)) = 2
               /\ Lookups(RepoOf(ref), ShaOf(ref)) = 1

\* the second job visited first, the same unreachable reference in both jobs
C3_Witness ==
  /\ ImposterDone
  /\ ret.err = Nil
  /\ DOMAIN arg.workflow.Jobs = JobKeys
  /\ arg.order = <<"j2", "j1">>
  /\ Cardinality(StepsWithRef("j1", repoOR \o strAt \o shaD3)) = 1
  /\ Cardinality(StepsWithRef("j2", repoOR \o strAt \o shaD3)) = 1
  /\ Cardinality(FindingsWithRef(repoOR \o strAt \o shaD3)) = 2
  /\ Lookups(repoOR, shaD3) = 1

\* C8: the findings appended are those of the steps visited before the call
\* returned, in order: none for a well-formed reference whose sha a branch or
\* a tag contains, one ImposterCommit finding with snippet owner/repo@sha for
\* one whose sha no branch and no tag contains; when nothing fails, every
\* step was visited.
C8_FindingIffUnreachable ==
  ImposterDone =>
     /\ SubSeq(data, 1, Len(arg.pdata)) = arg.pdata
     /\ \E m \in 0..Len(Visited) :
           /\ \A i \in 1..m : ~Malformed(Visited[i])
           /\ AppendedSaid = ImposterFindings(m)
           /\ ret.err = Nil => m = Len(Visited)

\* a run without error over a sha on a branch, one on a tag only and one nowhere
C8_Witness ==
  /\ ImposterDone
  /\ ret.err = Nil
  /\ Len(Visited) = 3
  /\ {RefOf(Visited[i].step) : i \in 1..3}
       = {repoOR \o strAt \o shaD1, repoOR \o strAt \o shaD2, repoOR \o strAt \o shaD3}
  /\ AppendedSaid = ImposterFindings(3)
  /\ Len(Appended) = 1

\* C9: when a visited step has a reference with no "@" or several, the call
\* returns an error; if no call on the client failed first, the error is
\* that of the first such step, the findings are those of the steps before
\* it and the lookups are those of the pairs before it: nothing for the
\* step itself or the steps after it.
C9_MalformedReferenceAborts ==
  (ImposterDone /\ FirstMalformed # 0) =>
     /\ ret.err # Nil
     /\ SubSeq(data, 1, Len(arg.pdata)) = arg.pdata
     /\ \E m \in 0..(FirstMalformed - 1) : AppendedSaid = ImposterFindings(m)
     /\ ret.err = "unexpected reference" =>
          /\ AppendedSaid = ImposterFindings(FirstMalformed - 1)
          /\ Cardinality({i \in 1..Len(calls) : calls[i].op = "MakeGithubRepo"})
               = Cardinality(PairsBefore(FirstMalformed - 1))
          /\ \A i \in 1..Len(calls) :
                \E key \in PairsBefore(FirstMalformed - 1) : calls[i].repo = key.repo

\* an imposter, then a reference with two "@", then another imposter
C9_Witness ==
  /\ ImposterDone
  /\ ret.err = "unexpected reference"
  /\ Len(Visited) = 3
  /\ FirstMalformed = 2
  /\ Cardinality(AtSigns(RefOf(Visited[2].step))) = 2
  /\ Imposter(Visited[1]) /\ Imposter(Visited[3])
  /\ Len(Appended) = 1

-----------------------------------------------------------------------------
(* Script injection over a workflow.                                       *)

\* the loops of validateScriptInjection over workflow.Jobs, visited in the
\* given order, and job.Steps: from step i of the n-th job on
RECURSIVE scriptInjectionLoop(_, _, _, _, _, _)
scriptInjectionLoop(workflow, order, n, i, path, pdata) ==
  IF n > Len(order) THEN [data |-> pdata, err |-> Nil]
  ELSE
    LET job == workflow.Jobs[order[n]]
    IN  IF job = NilPtr \/ i > Len(job[1].Steps)
        THEN scriptInjectionLoop(workflow, order, n + 1, 1, path, pdata)
        ELSE
          LET step == job[1].Steps[i]
          IN  IF \/ step = NilPtr
                 \/ step[1].Exec.kind # "run"
                 \/ step[1].Exec.Run = NilPtr
              THEN scriptInjectionLoop(workflow, order, n, i + 1, path, pdata)
              ELSE
                LET r == checkVariablesInScript(step[1].Exec.Run[1].Value,
                           step[1].Exec.Run[1].Pos, job, path, pdata)
                IN  IF r.err # Nil THEN r
                    ELSE scriptInjectionLoop(workflow, order, n, i + 1, path, r.data)

validateScriptInjection(workflow, path, pdata, order) ==
  scriptInjectionLoop(workflow, order, 1, 1, path, pdata)

-----------------------------------------------------------------------------
(* Validate, the callback fileparser.OnMatchingFileContentDo calls on      *)
(* every file matching .github/workflows/*.                                *)
(* file == [name, isWorkflowFile (fileparser.IsWorkflowFile(path)),        *)
(*          containsCommands (fileparser.CheckFileContainsCommands),       *)
(*          workflow, errs (what actionlint.Parse(content) returns)]       *)

errInvalidArgLength == "invalid arg length"
errInvalidArgType == "invalid arg type"
errActionlint == "actionlint parse error"

\* the argument DangerousWorkflow passes: &data
pdataArg == [type |-> "*checker.DangerousWorkflowData"]

\* what Validate returns after its third check: r3 is what
\* validateImposterCommits gave
ValidateResult(r3) ==
  [cont |-> r3.err = Nil, err |-> r3.err, data |-> r3.data, log |-> r3.log]

\* a Validate that gives back no finding of a file whose analysis fails
ValidateRollback(file, path, args, pdata, orders, fail) ==
  IF ~file.isWorkflowFile \/ ~file.containsCommands
  THEN [cont |-> TRUE, err |-> Nil, data |-> pdata, log |-> <<>>]
  ELSE IF file.errs > 0 /\ file.workflow = NilPtr
  THEN [cont |-> FALSE, err |-> errActionlint, data |-> pdata, log |-> <<>>]
  ELSE
    LET w  == file.workflow[1]
        r1 == validateUntrustedCodeCheckout(w, path, pdata, orders[1])
        r2 == validateScriptInjection(w, path, r1.data, orders[2])
        r3 == validateImposterCommits(w, path, r2.data, orders[3], fail)
    IN  IF r2.err # Nil
        THEN [cont |-> FALSE, err |-> r2.err, data |-> pdata, log |-> <<>>]
        ELSE IF r3.err # Nil
        THEN [cont |-> FALSE, err |-> r3.err, data |-> pdata, log |-> r3.log]
        ELSE [cont |-> TRUE, err |-> Nil, data |-> r3.data, log |-> r3.log]

\* Validate from its third check on: r2 is what validateScriptInjection gave
ValidateFromImposters(w, path, orders, fail, r2) ==
  IF r2.err # Nil
  THEN [cont |-> FALSE, err |-> r2.err, data |-> r2.data, log |-> <<>>]
  ELSE ValidateResult(validateImposterCommits(w, path, r2.data, orders[3], fail))

\* Validate from its second check on: r1 is what validateUntrustedCodeCheckout gave
ValidateFromScripts(w, path, orders, fail, r1) ==
  IF r1.err # Nil
  THEN [cont |-> FALSE, err |-> r1.err, data |-> r1.data, log |-> <<>>]
  ELSE ValidateFromImposters(w, path, orders, fail,
                             validateScriptInjection(w, path, r1.data, orders[2]))

\* a Validate that checks the scripts before the checkouts
ValidateScriptsFirst(file, path, args, pdata, orders, fail) ==
  IF ~file.isWorkflowFile \/ ~file.containsCommands
  THEN [cont |-> TRUE, err |-> Nil, data |-> pdata, log |-> <<>>]
  ELSE IF file.errs > 0 /\ file.workflow = NilPtr
  THEN [cont |-> FALSE, err |-> errActionlint, data |-> pdata, log |-> <<>>]
  ELSE
    LET w  == file.workflow[1]
        r2 == validateScriptInjection(w, path, pdata, orders[2])
    IN  IF r2.err # Nil
        THEN [cont |-> FALSE, err |-> r2.err, data |-> r2.data, log |-> <<>>]
        ELSE ValidateResult(validateImposterCommits(w, path,
               validateUntrustedCodeCheckout(w, path, r2.data, orders[1]).data,
               orders[3], fail))

\* a Validate that passes over a file the parser gave no document for
ValidateSkipUnparsed(file, path, args, pdata, orders, fail) ==
  IF file.isWorkflowFile /\ file.containsCommands /\ file.workflow = NilPtr
  THEN [cont |-> TRUE, err |-> Nil, data |-> pdata, log |-> <<>>]
  ELSE IF ~file.isWorkflowFile \/ ~file.containsCommands
  THEN [cont |-> TRUE, err |-> Nil, data |-> pdata, log |-> <<>>]
  ELSE ValidateFromScripts(file.workflow[1], path, orders, fail,
         validateUntrustedCodeCheckout(file.workflow[1], path, pdata, orders[1]))

\* validateGitHubActionWorkflowPatterns.Validate: orders are the orders in
\* which the three analyzers visit workflow.Jobs
Validate(file, path, args, pdata, orders, fail) ==
  IF ~file.isWorkflowFile
  THEN [cont |-> TRUE, err |-> Nil, data |-> pdata, log |-> <<>>]
  ELSE IF Len(args) # 1
  THEN [cont |-> FALSE, err |-> errInvalidArgLength, data |-> pdata, log |-> <<>>]
  ELSE IF args[1].type # "*checker.DangerousWorkflowData"
  THEN [cont |-> FALSE, err |-> errInvalidArgType, data |-> pdata, log |-> <<>>]
  ELSE IF ~file.containsCommands
  THEN [cont |-> TRUE, err |-> Nil, data |-> pdata, log |-> <<>>]
  ELSE IF file.errs > 0 /\ file.workflow = NilPtr
  THEN [cont |-> FALSE, err |-> errActionlint, data |-> pdata, log |-> <<>>]
  ELSE ValidateFromScripts(file.workflow[1], path, orders, fail,
         validateUntrustedCodeCheckout(file.workflow[1], path, pdata, orders[1]))

-----------------------------------------------------------------------------
(* One run of DangerousWorkflow: Validate on at most MaxFiles files, all   *)
(* given the same data and the same client.  The caller of Validate may go *)
(* on to the next file after a success and after a failure.                *)

MaxFiles == 2

Paths == <<pathA, pathB, "c.yml", "d.yml">>

(* ${{github.head_ref}}${{ *)
scriptRiskyThenUnterminated ==
  <<"$","{","{","g","i","t","h","u","b",".","h","e","a","d","_","r","e","f","}","}","$","{","{">>

stepCheckoutPullRequest ==
  ActionStep(2, usesCheckout, WithRef(Ptr(refPullRequestHeadSha)))
stepCheckoutWorkflowRun ==
  ActionStep(2, usesCheckout, WithRef(Ptr(refWorkflowRunHeadBranch)))

OneJob(steps) == [k \in {"j1"} |-> MakeJob(k, steps)]

Parsed(name, on, jobs, errs) ==
  [name |-> name, isWorkflowFile |-> TRUE, containsCommands |-> TRUE,
   workflow |-> Ptr([On |-> on, Jobs |-> jobs]), errs |-> errs]

FilePool ==
  {[name |-> "readme", isWorkflowFile |-> FALSE, containsCommands |-> TRUE,
    workflow |-> NilPtr, errs |-> 0],
   [name |-> "comments only", isWorkflowFile |-> TRUE, containsCommands |-> FALSE,
    workflow |-> NilPtr, errs |-> 0],
   [name |-> "unparsable", isWorkflowFile |-> TRUE, containsCommands |-> TRUE,
    workflow |-> NilPtr, errs |-> 1],
   Parsed("checkout and script", <<triggerPullRequestTarget>>,
          OneJob(<<stepCheckoutPullRequest, RunStep(4, scriptScenarioB)>>), 0),
   Parsed("script then checkout", <<triggerPullRequestTarget>>,
          OneJob(<<RunStep(2, scriptScenarioB),
                   ActionStep(4, usesCheckout, WithRef(Ptr(refPullRequestHeadSha)))>>), 1),
   Parsed("imposter twice", <<"push">>,
          OneJob(<<ActionStep(2, Uses(repoOR, shaD3), NoInputs),
                   ActionStep(4, Uses(repoOR, shaD3), NoInputs)>>), 0),
   Parsed("unterminated script", <<triggerPullRequestTarget>>,
          OneJob(<<stepCheckoutPullRequest,
                   RunStep(4, scriptRiskyThenUnterminated)>>), 0),
   Parsed("malformed reference", <<"push", triggerWorkflowRun>>,
          OneJob(<<stepCheckoutWorkflowRun, ActionStep(4, Ptr(repoOR), NoInputs)>>), 0),
   Parsed("job without name and id", <<triggerPullRequestTarget>>,
          [k \in {"j1"} |-> Ptr([Name |-> NilPtr, ID |-> NilPtr,
                                  Steps |-> <<stepCheckoutPullRequest, InertStep(4)>>])],
          0)}

FileNamed(name) == CHOOSE f \in FilePool : f.name = name

\* the orders in which the three analyzers can visit the jobs of a file
OrdersOf(file) ==
  IF file.workflow = NilPtr THEN {<<<<>>, <<>>, <<>>>>}
  ELSE LET o == Orders(file.workflow[1].Jobs) IN o \X o \X o

Init ==
  /\ data = <<>>
  /\ calls = noCalls
  /\ cache = noCache
  /\ ret = [cont |-> TRUE, err |-> Nil]
  /\ arg = [path |-> "", file |-> ""]
  /\ pc = "scan"
  /\ reach = reachOfRun
  /\ hist = noHist

\* one call of Validate; any one of the calls it makes on the client can fail
ValidateFile ==
  /\ pc = "scan"
  /\ Len(hist) < MaxFiles
  /\ \E file \in FilePool : \E orders \in OrdersOf(file) :
       LET path == Paths[Len(hist) + 1]
           calm == Validate(file, path, <<pdataArg>>, data, orders, 0)
       IN  \E fail \in 0..Len(calm.log) :
             \E r \in {Validate(file, path, <<pdataArg>>, data, orders, fail)} :
                 /\ data' = r.data
                 /\ calls' = calls \o r.log
                 /\ ret' = [cont |-> r.cont, err |-> r.err]
                 /\ arg' = [path |-> path, file |-> file.name]
                 /\ hist' = Append(hist, [path |-> path, file |-> file.name,
                                          before |-> data, err |-> r.err,
                                          log |-> r.log])
  /\ UNCHANGED <<cache, pc, reach>>

Next == ValidateFile

Spec == Init /\ [][Next]_vars


-----------------------------------------------------------------------------
(* Claims about one run over several files.                                *)

\* the finding list after the i-th call of Validate
After(i) == IF i < Len(hist) THEN hist[i + 1].before ELSE data

\* what the i-th call appended
AppendedBy(i) == SubSeq(After(i), Len(hist[i].before) + 1, Len(After(i)))

IsPrefix(s, t) == Len(s) <= Len(t) /\ SubSeq(t, 1, Len(s)) = s

\* the lookups a list of client calls makes for a pair
LookupsIn(log, repo, sha) ==
  Cardinality({i \in 1..Len(log) :
                 /\ log[i].op = "ContainsRevision"
                 /\ log[i].repo = repo
                 /\ log[i].base = strRefsHeads \o ListBranches(repo)[1]
                 /\ log[i].target = sha})

\* the well-formed references of the action steps of a file
RefsOfFile(name) ==
  LET file == FileNamed(name)
  IN  IF file.workflow = NilPtr THEN {}
      ELSE LET jobs == file.workflow[1].Jobs
           IN  {RefOf(jobs[k][1].Steps[n]) :
                  <<k, n>> \in {<<k, n>> \in (DOMAIN jobs) \X (1..MaxSteps) :
                                  /\ n <= Len(jobs[k][1].Steps)
                                  /\ IsActionStep(jobs[k][1].Steps[n])
                                  /\ WellFormed(RefOf(jobs[k][1].Steps[n]))}}

RefCheckout == strActionsCheckout \o strAt \o shaD1

AppendedOfType(i, type) == SelectSeq(AppendedBy(i), LAMBDA f : f.Type = type)

\* the job of a file that has one job
OnlyJob(file) ==
  file.workflow[1].Jobs[CHOOSE k \in DOMAIN file.workflow[1].Jobs : TRUE]

IsRunStep(step) == step[1].Exec.kind = "run" /\ step[1].Exec.Run # NilPtr

\* the first run step of the job with an unterminated script (0: none)
FirstUnterminated(job) ==
  LET bad == {n \in 1..Len(job[1].Steps) :
                /\ IsRunStep(job[1].Steps[n])
                /\ Unterminated(job[1].Steps[n][1].Exec.Run[1].Value)}
  IN  IF bad = {} THEN 0 ELSE CHOOSE n \in bad : \A m \in bad : n <= m

\* C10: over every sequence of Validate calls on one finding list, the list
\* before a call is a prefix of the list after that call and after every
\* later call, whether the calls succeed or fail. What a call appends is
\* about its own file. A call on a file under pull_request_target or
\* workflow_run appends one UntrustedCheckout finding per untrusted checkout
\* step also when a later analyzer fails; a call that fails on an
\* unterminated script keeps the script findings made up to the failure. A
\* failing call returns false and its error to the caller.
C10_FindingsAppendOnly ==
  /\ \A i \in 1..Len(hist) : \A j \in i..Len(hist) :
        IsPrefix(hist[i].before, After(j))
  /\ Len(hist) > 0 =>
        /\ ret.err = hist[Len(hist)].err
        /\ ret.cont = (ret.err = Nil)
  /\ \A i \in 1..Len(hist) :
        LET file == FileNamed(hist[i].file)
        IN  /\ \A n \in 1..Len(AppendedBy(i)) :
                  AppendedBy(i)[n].File.Path = hist[i].path
            /\ (file.isWorkflowFile /\ file.containsCommands
                  /\ file.workflow = NilPtr) =>
                  (hist[i].err = errActionlint /\ AppendedBy(i) = <<>>)
            /\ (file.workflow # NilPtr /\ Cardinality(DOMAIN file.workflow[1].Jobs) = 1) =>
                  LET job == OnlyJob(file)
                      u   == FirstUnterminated(job)
                  IN  /\ DeclaresRiskyTrigger(file.workflow[1]) =>
                            Len(AppendedOfType(i, DangerousWorkflowUntrustedCheckout))
                              = Len(UntrustedCheckoutSteps(job))
                      /\ u # 0 =>
                            /\ hist[i].err = errInvalidGitHubWorkflow
                            /\ \A n \in 1..u :
                                  IsRunStep(job[1].Steps[n]) =>
                                     LET risky == RiskyOnly(CandidatesFrom(
                                                    job[1].Steps[n][1].Exec.Run[1].Value, 0))
                                     IN  \A c \in 1..Len(risky) :
                                            \E f \in 1..Len(AppendedBy(i)) :
                                               /\ AppendedBy(i)[f].Type
                                                    = DangerousWorkflowScriptInjection
                                               /\ AppendedBy(i)[f].File.Snippet = risky[c]

\* a file analysed without error leaves findings; the next file fails on an
\* unterminated script after a checkout finding and a script finding of its own
C10_Witness ==
  /\ Len(hist) = 2
  /\ hist[1].file = "checkout and script" /\ hist[1].err = Nil
  /\ Len(hist[2].before) = 2
  /\ hist[2].file = "unterminated script"
  /\ hist[2].err = errInvalidGitHubWorkflow
  /\ ret.err = errInvalidGitHubWorkflow /\ ~ret.cont
  /\ Len(data) = 4
  /\ SubSeq(data, 1, 2) = hist[2].before
  /\ data[3].Type = DangerousWorkflowUntrustedCheckout
  /\ data[4].Type = DangerousWorkflowScriptInjection
  /\ data[4].File.Snippet = strGithubHeadRef


\* the parser gave the file of the i-th call errors and no document
ParseFailed(i) ==
  LET file == FileNamed(hist[i].file)
  IN  /\ file.isWorkflowFile /\ file.containsCommands
      /\ file.errs > 0 /\ file.workflow = NilPtr

\* C11: a call of Validate on a file for which the parser returns errors and
\* no document returns false and the parser's error, makes no call on the
\* client and appends nothing: the finding list is what it was before.
C11_ParseFailureStopsValidate ==
  \A i \in 1..Len(hist) :
     ParseFailed(i) =>
        /\ hist[i].err = errActionlint
        /\ hist[i].log = <<>>
        /\ After(i) = hist[i].before
        /\ i = Len(hist) => (ret.err = errActionlint /\ ~ret.cont)

\* a file with findings and lookups, then a file the parser rejects
C11_Witness ==
  /\ Len(hist) = 2
  /\ hist[1].err = Nil /\ Len(hist[1].log) > 0
  /\ ParseFailed(2)
  /\ Len(data) = 2
  /\ data = hist[2].before
  /\ calls = hist[1].log
  /\ ret.err = errActionlint


-----------------------------------------------------------------------------
(* One call of Validate on a workflow file whose jobs hold steps of every  *)
(* kind, at most MaxFileSteps steps in all. The step at position i of job  *)
(* j1 is on line 10 + i, that of job j2 on line 20 + i.                    *)

MaxFileSteps == 2

StepKinds == {"checkout", "checkout of imposter", "script", "imposter", "inert"}

StepOfKind(kind, line) ==
  CASE kind = "checkout" ->
         ActionStep(line, usesCheckout, WithRef(Ptr(refPullRequestHeadSha)))
    [] kind = "checkout of imposter" ->
         ActionStep(line, Uses(strActionsCheckout, shaD3),
                    WithRef(Ptr(refPullRequestHeadSha)))
    [] kind = "script" -> RunStep(line, scriptScenarioB)
    [] kind = "imposter" -> ActionStep(line, Uses(repoOR, shaD3), NoInputs)
    [] OTHER -> InertStep(line)

StepsOfKinds(kinds, base) ==
  [i \in 1..Len(kinds) |-> StepOfKind(kinds[i], base + i)]

\* a job as MakeJob gives it (j1 with name and id, j2 with an id only), or
\* without its id: j1 with neither name nor id, j2 with a name only
FileJob(k, steps, withID) ==
  IF withID THEN MakeJob(k, steps)
  ELSE Ptr([Name  |-> IF k = "j1" THEN NilPtr ELSE Ptr("test"),
            ID    |-> NilPtr,
            Steps |-> steps])

FileJobs(kinds1, kinds2, withID) ==
  [k \in {"j1"} \cup (IF kinds2 = <<>> THEN {} ELSE {"j2"}) |->
     FileJob(k, IF k = "j1" THEN StepsOfKinds(kinds1, 10)
                ELSE StepsOfKinds(kinds2, 20), withID)]

FileJobMaps ==
  UNION {{FileJobs(kinds1, kinds2, withID) :
            kinds2 \in SeqsUpTo(StepKinds, MaxFileSteps - Len(kinds1)),
            withID \in BOOLEAN} :
         kinds1 \in SeqsUpTo(StepKinds, MaxFileSteps)}

WorkflowFiles ==
  {Parsed("workflow", on, jobs, 0) :
     on \in {<<"push">>, <<triggerPullRequestTarget>>}, jobs \in FileJobMaps}

InitValidate ==
  /\ \E file \in WorkflowFiles :
       arg \in [file : {file}, path : {pathA}, orders : OrdersOf(file),
                pdata : {<<priorFinding>>}]
  /\ data = arg.pdata
  /\ ret = [cont |-> TRUE, err |-> Nil]
  /\ pc = "call"
  /\ calls = noCalls
  /\ cache = noCache
  /\ reach = reachOfRun
  /\ hist = noHist

\* one call of Validate; any one of the calls it makes on the client can fail
ValidateWorkflow ==
  /\ pc = "call"
  /\ \E calm \in {Validate(arg.file, arg.path, <<pdataArg>>, data, arg.orders, 0)} :
       \E fail \in 0..Len(calm.log) :
         \E r \in {Validate(arg.file, arg.path, <<pdataArg>>, data, arg.orders, fail)} :
             /\ data' = r.data
             /\ calls' = calls \o r.log
             /\ ret' = [cont |-> r.cont, err |-> r.err]
  /\ pc' = "done"
  /\ UNCHANGED <<cache, arg, reach, hist>>

NextValidate == ValidateWorkflow

SpecValidate == InitValidate /\ [][NextValidate]_vars

-----------------------------------------------------------------------------
(* Claims about the findings of one file.                                  *)

ValidateDone == pc = "done" /\ "file" \in DOMAIN arg /\ "orders" \in DOMAIN arg

\* two findings are of steps of one job
SameJob(f, g) == f.Job = g.Job

\* the place of the analyzer that makes findings of a type among the three
AnalyzerOf(type) ==
  IF type = DangerousWorkflowUntrustedCheckout THEN 1
  ELSE IF type = DangerousWorkflowScriptInjection THEN 2 ELSE 3

\* C12 as stated: among the findings appended for one file, a finding of an
\* earlier step of a job is before a finding of a later step of that job,
\* whatever the types of the two findings are.
C12_AsStated ==
  ValidateDone =>
     \A m, n \in 1..Len(Appended) :
        (/\ SameJob(Appended[m], Appended[n])
         /\ Appended[m].File.Offset < Appended[n].File.Offset) => m < n

\* C12 amended: the findings appended for one file are those of the checkout
\* analyzer, then those of the script analyzer, then those of the imposter
\* analyzer; among the findings of one type, a finding of an earlier step of
\* a job is before a finding of a later step of that job.
C12_OrderByAnalyzerThenStep ==
  ValidateDone =>
     \A m, n \in 1..Len(Appended) :
        /\ m < n => AnalyzerOf(Appended[m].Type) <= AnalyzerOf(Appended[n].Type)
        /\ (/\ Appended[m].Type = Appended[n].Type
            /\ SameJob(Appended[m], Appended[n])
            /\ Appended[m].File.Offset < Appended[n].File.Offset) => m < n

\* a script on line 11, then on line 12 a checkout of an unreachable sha: the
\* checkout finding of line 12 is before the script finding of line 11
C12_Witness ==
  /\ ValidateDone
  /\ ret.err = Nil
  /\ DOMAIN arg.file.workflow[1].Jobs = {"j1"}
  /\ Len(Appended) = 3
  /\ Appended[1].Type = DangerousWorkflowUntrustedCheckout
  /\ Appended[1].File.Offset = 12
  /\ Appended[2].Type = DangerousWorkflowScriptInjection
  /\ Appended[2].File.Offset = 11
  /\ Appended[3].Type = DangerousWorkflowImposterReference
  /\ Appended[3].File.Offset = 12


\* the lines of the steps of the file that run the script of scenario B
ScenarioBLines ==
  LET jobs == arg.file.workflow[1].Jobs
  IN  {jobs[k][1].Steps[n][1].Pos[1].Line :
         <<k, n>> \in {<<k, n>> \in (DOMAIN jobs) \X (1..MaxFileSteps) :
                         /\ n <= Len(jobs[k][1].Steps)
                         /\ IsRunStep(jobs[k][1].Steps[n])
                         /\ jobs[k][1].Steps[n][1].Exec.Run[1].Value = scriptScenarioB}}

AppendedScriptInjections ==
  SelectSeq(Appended, LAMBDA f : f.Type = DangerousWorkflowScriptInjection)

exprIssueTitle == strGithubEvent \o patIssueTitle

\* C13 as stated: each step running echo "${{ github.event.issue.title }}"
\* gets exactly one ScriptInjection finding, whose snippet is
\* github.event.issue.title without the blanks around it.
C13_AsStated ==
  ValidateDone =>
     /\ Len(AppendedScriptInjections) = Cardinality(ScenarioBLines)
     /\ \A i \in 1..Len(AppendedScriptInjections) :
           /\ AppendedScriptInjections[i].File.Offset \in ScenarioBLines
           /\ AppendedScriptInjections[i].File.Snippet = exprIssueTitle

\* C13 amended: each step running echo "${{ github.event.issue.title }}"
\* gets exactly one ScriptInjection finding, on the line of the step, whose
\* snippet is the text between "${{" and "}}" as written, with the blank
\* after "${{" and the blank before "}}".
C13_SnippetIsVerbatim ==
  ValidateDone =>
     /\ Len(AppendedScriptInjections) = Cardinality(ScenarioBLines)
     /\ \A line \in ScenarioBLines :
           \E i \in 1..Len(AppendedScriptInjections) :
              AppendedScriptInjections[i].File.Offset = line
     /\ \A i \in 1..Len(AppendedScriptInjections) :
           /\ AppendedScriptInjections[i].File.Offset \in ScenarioBLines
           /\ AppendedScriptInjections[i].File.Snippet
                = <<" ">> \o exprIssueTitle \o <<" ">>

\* a file whose only step runs the script
C13_Witness ==
  /\ ValidateDone
  /\ ret.err = Nil
  /\ ScenarioBLines = {11}
  /\ DOMAIN arg.file.workflow[1].Jobs = {"j1"}
  /\ Len(arg.file.workflow[1].Jobs["j1"][1].Steps) = 1
  /\ Len(Appended) = 1
  /\ Appended[1].Type = DangerousWorkflowScriptInjection
  /\ Len(Appended[1].File.Snippet) = Len(exprIssueTitle) + 2


-----------------------------------------------------------------------------
(* Claims about one lookup of the cache.                                   *)

\* the refs of a repository in the order checkImposterCommit asks them
RefsInTurn(repo) ==
  [i \in 1..Len(ListBranches(repo)) |-> strRefsHeads \o ListBranches(repo)[i]]
    \o [i \in 1..Len(ListTags(repo)) |-> strRefsTags \o ListTags(repo)[i]]

IsContainsRevision(c) == c.op = "ContainsRevision"

RevisionCalls(log) == SelectSeq(log, IsContainsRevision)

\* the places of the calls of an operation in a log
PlacesOf(log, op) == {c \in 1..Len(log) : log[c].op = op}

\* the c-th call of the i-th Contains is a ContainsRevision that returned true
ReturnedTrue(i, c) ==
  /\ IsContainsRevision(hist[i].log[c])
  /\ <<hist[i].log[c].repo, hist[i].log[c].base, hist[i].log[c].target>> \in reach
  /\ ~(c = Len(hist[i].log) /\ hist[i].err = "ContainsRevision failed")

\* C14: a Contains that misses the cache lists the branches, asks
\* ContainsRevision for each branch in turn, then lists the tags and asks for
\* each tag in turn. The first ContainsRevision that returns true is the last
\* call made and the result is true, so ListTags is not called when a branch
\* contains the sha; the result is false without error only when every
\* branch and every tag was asked and none contains the sha.
C14_BranchesThenTagsShortCircuit ==
  \A i \in 1..Len(hist) :
     hist[i].log # <<>> =>
        LET log  == hist[i].log
            revs == RevisionCalls(log)
            refs == RefsInTurn(hist[i].repo)
            nb   == Len(ListBranches(hist[i].repo))
        IN  /\ Len(revs) <= Len(refs)
            /\ \A k \in 1..Len(revs) :
                  /\ revs[k].repo = hist[i].repo
                  /\ revs[k].base = refs[k]
                  /\ revs[k].target = hist[i].sha
            /\ \A b \in PlacesOf(log, "ListBranches") :
                  \A c \in PlacesOf(log, "ContainsRevision") : b < c
            /\ \A t \in PlacesOf(log, "ListTags") :
                  /\ Cardinality({c \in PlacesOf(log, "ContainsRevision") : c < t}) = nb
                  /\ \A c \in 1..(t - 1) : ~ReturnedTrue(i, c)
            /\ Len(revs) > nb => PlacesOf(log, "ListTags") # {}
            /\ \A c \in 1..Len(log) :
                  ReturnedTrue(i, c) =>
                     (c = Len(log) /\ hist[i].out /\ hist[i].err = Nil)
            /\ (\E k \in 1..nb : <<hist[i].repo, refs[k], hist[i].sha>> \in reach) =>
                  PlacesOf(log, "ListTags") = {}
            /\ (hist[i].err = Nil /\ ~hist[i].out) =>
                  /\ Len(revs) = Len(refs)
                  /\ \A c \in 1..Len(log) : ~ReturnedTrue(i, c)
            /\ (hist[i].err = Nil /\ hist[i].out) => ReturnedTrue(i, Len(log))

\* a sha on every ref is found on the first branch; a sha on the tag only is
\* found after both branches; a sha nowhere is asked of every ref
C14_Witness ==
  /\ reach = reachOnEveryRef
  /\ Len(hist) = 3
  /\ hist[1].repo = repoOR /\ hist[1].sha = shaD1 /\ hist[1].out
  /\ Len(RevisionCalls(hist[1].log)) = 1
  /\ PlacesOf(hist[1].log, "ListTags") = {}
  /\ hist[2].repo = repoOR /\ hist[2].sha = shaD2 /\ hist[2].out
  /\ Len(RevisionCalls(hist[2].log)) = 3
  /\ hist[3].repo = repoOR /\ hist[3].sha = shaD3
  /\ hist[3].err = Nil /\ ~hist[3].out
  /\ Len(RevisionCalls(hist[3].log)) = 3


-----------------------------------------------------------------------------
(* The loop of checkVariablesInScript, one iteration at a time. hist holds *)
(* one entry per iteration that extracted a variable: the variable and the *)
(* script the loop goes on with.                                           *)

\* script as the loop sees it at the start of an iteration
scriptLeft == IF hist = <<>> THEN arg.script ELSE hist[Len(hist)].script

\* a cursor that restarts right after the opening delimiter
AdvancePastOpen(script, s, e) == Slice(script, s + 3, Len(script))

\* script = script[s+e:]
Advance(script, s, e) == Slice(script, s + e, Len(script))

(* ${{github.head_ref}}${{x}}echo "${{ github.event.issue.title }}" *)
scriptThreeExpressions ==
  strOpenExpr \o strGithubHeadRef \o strCloseExpr
    \o strOpenExpr \o <<"x">> \o strCloseExpr \o scriptScenarioB

InitScan ==
  /\ arg \in [script : Scripts \cup {scriptThreeExpressions},
              pos    : {Ptr([Line |-> 7, Col |-> 9])},
              job    : {jobNamed},
              path   : {pathA},
              pdata  : {<<priorFinding>>}]
  /\ data = arg.pdata
  /\ ret = [err |-> Nil]
  /\ pc = "loop"
  /\ calls = noCalls
  /\ cache = noCache
  /\ reach = {}
  /\ hist = noHist

\* no "${{" is left: break, return nil
ScanBreak ==
  /\ pc = "loop"
  /\ Index(scriptLeft, strOpenExpr) = -1
  /\ pc' = "done"
  /\ UNCHANGED <<data, calls, cache, ret, arg, reach, hist>>

\* a "${{" without "}}" from it on: return the error
ScanError ==
  /\ pc = "loop"
  /\ Index(scriptLeft, strOpenExpr) # -1
  /\ Index(Slice(scriptLeft, Index(scriptLeft, strOpenExpr), Len(scriptLeft)),
           strCloseExpr) = -1
  /\ ret' = [err |-> errInvalidGitHubWorkflow]
  /\ pc' = "done"
  /\ UNCHANGED <<data, calls, cache, arg, reach, hist>>

\* a "${{" and a "}}": take the variable, append a finding if it is risky,
\* cut the script
ScanExtract ==
  /\ pc = "loop"
  /\ \E s \in {Index(scriptLeft, strOpenExpr)} :
       /\ s # -1
       /\ \E e \in {Index(Slice(scriptLeft, s, Len(scriptLeft)), strCloseExpr)} :
            /\ e # -1
            /\ \E variable \in {Slice(scriptLeft, s + 3, s + e)} :
                 /\ data' = IF containsUntrustedContextPattern(variable)
                            THEN Append(data,
                                   DangerousWorkflow(DangerousWorkflowScriptInjection,
                                     arg.path, GetLineNumber(arg.pos), variable,
                                     arg.job))
                            ELSE data
                 /\ hist' = Append(hist, [variable |-> variable,
                                          script   |-> Advance(scriptLeft, s, e)])
  /\ UNCHANGED <<calls, cache, ret, arg, pc, reach>>

NextScan == ScanBreak \/ ScanError \/ ScanExtract

\* the loop runs until it returns
SpecScanFair == InitScan /\ [][NextScan]_vars /\ WF_vars(NextScan)

-----------------------------------------------------------------------------
(* Claims about the loop.                                                  *)

\* the variables the loop extracted so far
Extracted == [k \in 1..Len(hist) |-> hist[k].variable]

LoopDone == pc = "done" /\ "script" \in DOMAIN arg /\ "pdata" \in DOMAIN arg

\* what the loop has extracted so far begins the list of section 4.2
ExtractedSoFar ==
  (pc = "loop" /\ ~Unterminated(arg.script)) =>
     IsPrefix(Extracted, CandidatesFrom(arg.script, 0))

\* the loop has returned with the list of section 4.2 and its findings
ExtractedAll ==
  (LoopDone /\ ~Unterminated(arg.script)) =>
     /\ ret.err = Nil
     /\ Extracted = CandidatesFrom(arg.script, 0)
     /\ data = arg.pdata \o ScriptFindings(RiskyOnly(CandidatesFrom(arg.script, 0)))

\* C15: on a script in which every "${{" has a "}}" after it, the loop of
\* checkVariablesInScript returns, without error, and the variables it
\* extracted, in order, are those of the scan of section 4.2 (next "${{",
\* next "}}" strictly after it, the text between, cursor just past the
\* "}}"); the findings are those of the risky ones among them.
C15_ScanEquivalent ==
  /\ (~Unterminated(arg.script)) ~> LoopDone
  /\ [](ExtractedSoFar /\ ExtractedAll)

\* the loop has returned from a script with three expressions, the second
\* opening right where the first closed; the first and the third are risky
C15_Witness ==
  /\ LoopDone
  /\ arg.script = scriptThreeExpressions
  /\ ~Unterminated(arg.script)
  /\ Extracted = <<strGithubHeadRef, <<"x">>, <<" ">> \o exprIssueTitle \o <<" ">>>>
  /\ Len(data) = Len(arg.pdata) + 2


-----------------------------------------------------------------------------
(* Claims about the job of a finding.                                      *)

\* the job of the step a finding of the file is about: the steps of j1 are
\* on lines 11.., those of j2 on lines 21..
EnclosingJob(f) ==
  arg.file.workflow[1].Jobs[IF f.File.Offset < 20 THEN "j1" ELSE "j2"]

Bare(job) == job[1].Name = NilPtr /\ job[1].ID = NilPtr

\* C16 as stated: the Job of a finding is nil when its job has neither a
\* name nor an id, and non-nil only when its job has a name or an id.
C16_AsStated ==
  ValidateDone =>
     \A i \in 1..Len(Appended) :
        /\ Bare(EnclosingJob(Appended[i])) => Appended[i].Job = NilPtr
        /\ Appended[i].Job # NilPtr => ~Bare(EnclosingJob(Appended[i]))

\* C16 amended: the Job of a finding is never nil. Its Name is the name of
\* the enclosing job and nil when the job has no name, its ID is the id of
\* the enclosing job and nil when the job has no id; for a job with neither,
\* Job is a non-nil pair of two nil fields.
C16_JobCarriesNameAndID ==
  ValidateDone =>
     \A i \in 1..Len(Appended) :
        /\ Appended[i].Job # NilPtr
        /\ Appended[i].Job[1].Name = EnclosingJob(Appended[i])[1].Name
        /\ Appended[i].Job[1].ID = EnclosingJob(Appended[i])[1].ID

\* a job with neither name nor id gets a finding of each type, and a job
\* with a name only gets one
C16_Witness ==
  /\ ValidateDone
  /\ ret.err = Nil
  /\ DOMAIN arg.file.workflow[1].Jobs = {"j1", "j2"}
  /\ Bare(arg.file.workflow[1].Jobs["j1"])
  /\ {Appended[i].Type : i \in 1..Len(Appended)}
       = {DangerousWorkflowUntrustedCheckout, DangerousWorkflowScriptInjection,
          DangerousWorkflowImposterReference}
  /\ \E i \in 1..Len(Appended) :
        /\ Appended[i].File.Offset < 20
        /\ Appended[i].Job = Ptr([Name |-> NilPtr, ID |-> NilPtr])
  /\ \E i \in 1..Len(Appended) :
        /\ Appended[i].File.Offset > 20
        /\ Appended[i].Job = Ptr([Name |-> Ptr("test"), ID |-> NilPtr])


-----------------------------------------------------------------------------
(* graphqlHandler: goroutines calling its accessors on one handler after   *)
(* one init. data is the handler, with its sync.Once as [done, m]: done is *)
(* the flag of the Once, m the goroutine that holds its mutex. reach is    *)
(* the remote side: whether client.Query fails and what it fills in.       *)
(* pc[p], arg[p] and ret[p] are the place, the accessor and the result of  *)
(* goroutine p.                                                            *)

MaxProcs == 2

Procs == 1..MaxProcs

Accessors == {"getMergedPRs", "getCommits", "getReleases", "isArchived"}

errSetupQuery == "githubv4.Query"
errDuringSetup == "error during graphqlHandler.setup"

\* new(graphqlData)
newGraphqlData ==
  [IsArchived |-> FALSE, PullRequests |-> <<>>, Releases |-> <<>>, History |-> <<>>]

\* what the remote repository can answer
GraphqlResponses ==
  {[IsArchived |-> TRUE, PullRequests |-> <<7>>, Releases |-> <<"v1">>,
    History |-> <<"c1", "c2">>],
   [IsArchived |-> FALSE, PullRequests |-> <<7, 9>>, Releases |-> <<>>,
    History |-> <<"c1">>]}

pullRequestsFrom(d) ==
  [i \in 1..Len(d.PullRequests) |-> [Number |-> d.PullRequests[i]]]

releasesFrom(d) ==
  [i \in 1..Len(d.Releases) |-> [TagName |-> d.Releases[i]]]

commitsFrom(d) ==
  [i \in 1..Len(d.History) |-> [SHA |-> d.History[i]]]

\* graphqlHandler.init
InitGraphql ==
  /\ data = [data     |-> newGraphqlData,
             errSetup |-> Nil,
             once     |-> [done |-> 0, m |-> NilPtr],
             prs      |-> <<>>,
             commits  |-> <<>>,
             releases |-> <<>>,
             archived |-> FALSE]
  /\ reach \in [fails : {FALSE}, response : GraphqlResponses]
                 \cup [fails : {TRUE}, response : {newGraphqlData}]
  /\ calls = noCalls
  /\ pc = [p \in Procs |-> "idle"]
  /\ arg = [p \in Procs |-> "none"]
  /\ ret = [p \in Procs |-> [val |-> <<>>, err |-> Nil]]
  /\ cache = noCache
  /\ hist = noHist

\* the mutex of a Once that lets everyone in
OnceUnlockedAlways == TRUE

\* m.Lock() of the Once can go through
OnceUnlocked == data.once.m = NilPtr

\* a goroutine calls an accessor, for the first time or again
CallAccessor(p) ==
  /\ pc[p] \in {"idle", "returned"}
  /\ \E a \in Accessors : arg' = [arg EXCEPT ![p] = a]
  /\ pc' = [pc EXCEPT ![p] = "setup"]
  /\ UNCHANGED <<data, calls, cache, ret, reach, hist>>

\* once.Do: the load of done
OnceDo(p) ==
  /\ pc[p] = "setup"
  /\ pc' = [pc EXCEPT ![p] = IF data.once.done = 1 THEN "return" ELSE "doSlow"]
  /\ UNCHANGED <<data, calls, cache, ret, arg, reach, hist>>

\* once.Do: m.Lock() and the second look at done
OnceLock(p) ==
  /\ pc[p] = "doSlow"
  /\ OnceUnlocked
  /\ IF data.once.done = 0
     THEN /\ data' = [data EXCEPT !.once.m = Ptr(p)]
          /\ pc' = [pc EXCEPT ![p] = "query"]
     ELSE /\ data' = data
          /\ pc' = [pc EXCEPT ![p] = "return"]
  /\ UNCHANGED <<calls, cache, ret, arg, reach, hist>>

\* setup: handler.client.Query is sent
QuerySend(p) ==
  /\ pc[p] = "query"
  /\ calls' = Append(calls, [op |-> "Query", by |-> p])
  /\ pc' = [pc EXCEPT ![p] = "querying"]
  /\ UNCHANGED <<data, cache, ret, arg, reach, hist>>

\* setup: handler.client.Query returns
QueryReturn(p) ==
  /\ pc[p] = "querying"
  /\ data' = IF reach.fails THEN [data EXCEPT !.errSetup = errSetupQuery]
             ELSE [data EXCEPT !.data = reach.response]
  /\ pc' = [pc EXCEPT ![p] = "fill"]
  /\ UNCHANGED <<calls, cache, ret, arg, reach, hist>>

\* setup: the four fields are filled; the Once stores done and unlocks
FillAndUnlock(p) ==
  /\ pc[p] = "fill"
  /\ data' = [data EXCEPT !.archived = data.data.IsArchived,
                          !.prs = pullRequestsFrom(data.data),
                          !.releases = releasesFrom(data.data),
                          !.commits = commitsFrom(data.data),
                          !.once = [done |-> 1, m |-> NilPtr]]
  /\ pc' = [pc EXCEPT ![p] = "return"]
  /\ UNCHANGED <<calls, cache, ret, arg, reach, hist>>

\* setup returns handler.errSetup and the accessor returns
AccessorReturn(p) ==
  /\ pc[p] = "return"
  /\ ret' = [ret EXCEPT ![p] =
               IF data.errSetup # Nil
               THEN [val |-> IF arg[p] = "isArchived" THEN FALSE ELSE <<>>,
                     err |-> errDuringSetup]
               ELSE [val |-> CASE arg[p] = "getMergedPRs" -> data.prs
                               [] arg[p] = "getCommits" -> data.commits
                               [] arg[p] = "getReleases" -> data.releases
                               [] OTHER -> data.archived,
                     err |-> Nil]]
  /\ pc' = [pc EXCEPT ![p] = "returned"]
  /\ UNCHANGED <<data, calls, cache, arg, reach, hist>>

NextGraphql ==
  \E p \in Procs :
     \/ CallAccessor(p)
     \/ OnceDo(p)
     \/ OnceLock(p)
     \/ QuerySend(p)
     \/ QueryReturn(p)
     \/ FillAndUnlock(p)
     \/ AccessorReturn(p)

SpecGraphql == InitGraphql /\ [][NextGraphql]_vars

-----------------------------------------------------------------------------
(* Claims about the handler.                                               *)

\* what an accessor returns from the answer of the repository
AnswerOf(a) ==
  CASE a = "getMergedPRs" -> [i \in 1..Len(reach.response.PullRequests) |->
                                [Number |-> reach.response.PullRequests[i]]]
    [] a = "getCommits" -> [i \in 1..Len(reach.response.History) |->
                              [SHA |-> reach.response.History[i]]]
    [] a = "getReleases" -> [i \in 1..Len(reach.response.Releases) |->
                               [TagName |-> reach.response.Releases[i]]]
    [] OTHER -> reach.response.IsArchived

\* the query was sent and has returned, and what it gave is stored
QueryCompleted ==
  /\ Len(calls) = 1
  /\ \A p \in Procs : pc[p] \notin {"query", "querying", "fill"}
  /\ data.once.done = 1

\* C17: however the goroutines interleave and however often they call the
\* four accessors, the query is sent at most once; an accessor that has
\* returned did so after the query had completed, with the answer of that
\* query when it succeeded and with an error and the zero value when it
\* failed, also on every later call.
C17_QueryOnceAllSeeOutcome ==
  /\ Len(calls) <= 1
  /\ \A p \in Procs :
        pc[p] = "returned" =>
           /\ QueryCompleted
           /\ reach.fails =>
                 /\ ret[p].err = errDuringSetup
                 /\ ret[p].val = (IF arg[p] = "isArchived" THEN FALSE ELSE <<>>)
           /\ ~reach.fails =>
                 /\ ret[p].err = Nil
                 /\ ret[p].val = AnswerOf(arg[p])

\* the query failed: the goroutine that sent it has returned the error and
\* is in a later call of another accessor, the other goroutine has returned
\* the error as well, and one query was sent
C17_Witness ==
  /\ reach.fails
  /\ Len(calls) = 1
  /\ calls[1].by = 2
  /\ pc[1] = "returned" /\ arg[1] = "getCommits" /\ ret[1].err = errDuringSetup
  /\ pc[2] = "return" /\ arg[2] = "isArchived" /\ ret[2].err = errDuringSetup
=============================================================================
